---- MODULE Spec2Model ----
(***************************************************************************)
(* Model of src/streamlit_app.py: the paginated crawl of va.mite.gov.it    *)
(* (search-result walk, detail pages, per-procedure document walk), the    *)
(* Search handler of the Streamlit page and its Download All handler.       *)
(*                                                                         *)
(* Spec is the page in front of a server that may answer any request in    *)
(* any way, SpecSite the page in front of a server with fixed responses,    *)
(* SpecDownload the Download All handler after a Search; SpecPages,         *)
(* SpecTable, SpecCollect and SpecProjectId call one function on its own.   *)
(*                                                                         *)
(* Text is a sequence of tokens: "Pagina" and "di" stand for those literal  *)
(* words, " " for a whitespace character, "0".."9" for the digits.           *)
(* An href is a record [host, kind, id, query]; urljoin(BASE_URL, href)     *)
(* makes it absolute, so a relative and an absolute href of the same path   *)
(* resolve to the same URL.  The lists st.cache_data keeps of               *)
(* collect_search_results outlive a Search run.                             *)
(***************************************************************************)
EXTENDS Integers, Sequences, FiniteSets, TLC

\* ------------------------------------------------------------------ bounds
\* longest pagination label text, in tokens
MaxLabelLen == 7
\* most <tr> rows of a document table (the header row included)
MaxRows == 3
\* most anchors on a search-result page or a detail page
MaxAnchors == 2
\* largest total a pagination label reports during a crawl
MaxTotal == 2

\* most record links on one page of the search-walk fixture
MaxPageLinks == 3

\* longest path after the prefix of a URL given to get_project_id, in tokens
MaxIdLen == 3

\* most documents of one procedure in the results handed to Download All
MaxDocs == 2

\* ------------------------------------------------------------- constants
DELAY_BETWEEN_REQUESTS == 1

\* --------------------------------------------------------------- helpers
Digits == {"0", "1", "2", "3", "4", "5", "6", "7", "8", "9"}

DigitVal(c) ==
    CASE c = "0" -> 0 [] c = "1" -> 1 [] c = "2" -> 2 [] c = "3" -> 3
      [] c = "4" -> 4 [] c = "5" -> 5 [] c = "6" -> 6 [] c = "7" -> 7
      [] c = "8" -> 8 [] c = "9" -> 9

IsSpace(c) == c = " "

IsDigit(c) == c \in Digits

\* all sequences over S of length at most n
SeqsUpTo(S, n) == UNION {[1..k -> S] : k \in 0..n}

\* int(s) for a string of decimal digits
RECURSIVE int(_)
int(s) ==
    IF s = <<>> THEN 0
    ELSE 10 * int(SubSeq(s, 1, Len(s) - 1)) + DigitVal(s[Len(s)])

\* -------------------------------------------------- re.search of line 48
\* index after the longest run of whitespace starting at i (\s+ is greedy)
RECURSIVE SpaceRunEnd(_, _)
SpaceRunEnd(t, i) ==
    IF i <= Len(t) /\ IsSpace(t[i]) THEN SpaceRunEnd(t, i + 1) ELSE i

\* index after the longest run of digits starting at i (\d+ is greedy)
RECURSIVE DigitRunEnd(_, _)
DigitRunEnd(t, i) ==
    IF i <= Len(t) /\ IsDigit(t[i]) THEN DigitRunEnd(t, i + 1) ELSE i

\* r'Pagina\s+(\d+)\s+di\s+(\d+)' matched at position i: the two groups, or
\* <<>> when the pattern does not match there
MatchAt(t, i) ==
    LET s1 == SpaceRunEnd(t, i + 1)
        d1 == DigitRunEnd(t, s1)
        s2 == SpaceRunEnd(t, d1)
        s3 == SpaceRunEnd(t, s2 + 1)
        d2 == DigitRunEnd(t, s3)
    IN  IF /\ i <= Len(t) /\ t[i] = "Pagina"
           /\ s1 > i + 1
           /\ d1 > s1
           /\ s2 > d1
           /\ s2 <= Len(t) /\ t[s2] = "di"
           /\ s3 > s2 + 1
           /\ d2 > s3
        THEN <<SubSeq(t, s1, d1 - 1), SubSeq(t, s3, d2 - 1)>>
        ELSE <<>>

\* re.search: the match at the leftmost position that has one
RECURSIVE SearchFrom(_, _)
SearchFrom(t, i) ==
    IF i > Len(t) THEN <<>>
    ELSE IF MatchAt(t, i) # <<>> THEN MatchAt(t, i)
    ELSE SearchFrom(t, i + 1)

re_search(t) == SearchFrom(t, 1)

\* --------------------------------------------------------- find_total_pages
\* A soup's pagination part: hasUl = a <ul class="pagination"> exists,
\* hasLi = it holds a <li class="etichettaRicerca">, text = that li's text.
find_total_pages_ret_group1(pag) ==
    IF ~pag.hasUl THEN 1
    ELSE IF ~pag.hasLi THEN 1
    ELSE LET match == re_search(pag.text)
         IN  IF match # <<>> THEN int(match[1]) ELSE 1

find_total_pages(pag) ==
    IF ~pag.hasUl THEN 1
    ELSE IF ~pag.hasLi THEN 1
    ELSE LET match == re_search(pag.text)
         IN  IF match # <<>> THEN int(match[2]) ELSE 1

\* ------------------------------------------------------------ URLs, hrefs
BASE_URL == "va.mite.gov.it"

\* an href or URL: host "" marks a relative href; kind is the path prefix
\* ("Info" = /it-IT/Oggetti/Info/, "Documentazione" =
\* /it-IT/Oggetti/Documentazione/, "File" = a document download path),
\* id the path after the prefix (a token sequence), query the list of query
\* parameters
MkHref(host, kind, id) == [host |-> host, kind |-> kind, id |-> id, query |-> <<>>]

Id1 == <<"1">>
Id2 == <<"2">>

\* urllib.parse.urljoin(base, href)
urljoin(base, href) == IF href.host = "" THEN [href EXCEPT !.host = base] ELSE href

\* link_pattern in href
HrefContains(href, link_pattern) == href.kind = link_pattern

\* build_search_url(keyword, search_type, page)
build_search_url(kw, st, pg) ==
    [host |-> BASE_URL, kind |-> "Ricerca", id |-> <<>>,
     query |-> <<<<"Testo", kw>>, <<"t", st>>, <<"pagina", pg>>>>]

\* the URL of page pg of a procedure's document table (lines 148-152)
document_page_url_without_page(procedura_url, pg) == procedura_url

document_page_url(procedura_url, pg) ==
    IF pg = 1 THEN procedura_url
    ELSE [procedura_url EXCEPT !.query = Append(@, <<"pagina", pg>>)]

\* hrefs that occur on the site's search pages
SearchPageHrefs ==
    { MkHref("", "Info", Id1), MkHref(BASE_URL, "Info", Id1), MkHref("", "Info", Id2),
      MkHref("", "Documentazione", Id1) }

\* hrefs that occur on the site's record pages
RecordPageHrefs ==
    { MkHref("", "Documentazione", Id1), MkHref(BASE_URL, "Documentazione", Id1),
      MkHref("", "Documentazione", Id2), MkHref("", "Info", Id1) }

\* ------------------------------------------------------- document tables
\* a table cell: its text and its <a> elements
MkCell(text, links) == [text |-> text, links |-> links]

MkA(hasHref, href, title) == [hasHref |-> hasHref, href |-> href, title |-> title]

File1 == MkHref("", "File", Id1)
File2 == MkHref("", "File", Id2)

\* what a cell's anchors may be
CellLinks ==
    { <<>>,
      <<MkA(TRUE, File1, "Scarica il documento")>>,
      <<MkA(TRUE, File1, "Dettagli"), MkA(TRUE, File2, "Scarica il documento")>> }

Names == {<<"a", ".pdf">>, <<"b", ".pdf">>}

\* a row of n cells, the name in cell index 1 and the anchors a in cell col
\* (1-based position col = 0-based index col - 1)
MkRow(n, name, col, a) ==
    [i \in 1..n |-> MkCell(IF i = 2 THEN name ELSE <<>>, IF i = col THEN a ELSE <<>>)]

RowShapes ==
    { MkRow(n, name, col, a) :
        n \in {8, 9, 10}, name \in Names,
        col \in {8, 9}, a \in CellLinks }

NoTable == [present |-> FALSE, rows |-> <<>>]

MkTable(rows) == [present |-> TRUE, rows |-> rows]

\* td.find("a", href=True, title="Scarica il documento"): the first such
\* anchor of the cell, as a sequence of at most one element
RECURSIVE find_download_a(_)
find_download_a(links) ==
    IF links = <<>> THEN <<>>
    ELSE IF Head(links).hasHref /\ Head(links).title = "Scarica il documento"
         THEN <<Head(links)>>
         ELSE find_download_a(Tail(links))

\* s[1:]
SliceFrom1(s) == IF s = <<>> THEN <<>> ELSE Tail(s)

\* one pass of the loop body of lines 171-182 over a row
process_row_col7(cols, doc_links) ==
    IF Len(cols) < 9 THEN doc_links
    ELSE LET nome_file == cols[2].text
             download_a == find_download_a(cols[8].links)
         IN  IF download_a # <<>>
             THEN Append(doc_links,
                         <<urljoin(BASE_URL, download_a[1].href), nome_file>>)
             ELSE doc_links

process_row(cols, doc_links) ==
    IF Len(cols) < 9 THEN doc_links
    ELSE LET nome_file == cols[2].text
             download_a == find_download_a(cols[9].links)
         IN  IF download_a # <<>>
             THEN Append(doc_links,
                         <<urljoin(BASE_URL, download_a[1].href), nome_file>>)
             ELSE doc_links

\* for row in rows: ... (lines 171-182)
RECURSIVE process_rows(_, _)
process_rows(rows, doc_links) ==
    IF rows = <<>> THEN doc_links
    ELSE process_rows(Tail(rows), process_row(Head(rows), doc_links))

\* lines 170-182: the entries one page's table adds to doc_links
table_documents(table, doc_links) == process_rows(SliceFrom1(table.rows), doc_links)

\* ------------------------------------------------------------- pages
MkPag(hasUl, hasLi, text) == [hasUl |-> hasUl, hasLi |-> hasLi, text |-> text]

MkSoup(pag, anchors, table) == [pag |-> pag, anchors |-> anchors, table |-> table]

DigitOf(n) ==
    CASE n = 0 -> "0" [] n = 1 -> "1" [] n = 2 -> "2" [] n = 3 -> "3"
      [] n = 4 -> "4" [] n = 5 -> "5" [] n = 6 -> "6" [] n = 7 -> "7"
      [] n = 8 -> "8" [] n = 9 -> "9"

\* the label text "Pagina a di b" (a, b < 10)
Label(a, b) == <<"Pagina", " ", DigitOf(a), " ", "di", " ", DigitOf(b)>>

\* the pagination parts the site's pages carry during a crawl
CrawlPags ==
    {MkPag(FALSE, FALSE, <<>>)} \cup {MkPag(TRUE, TRUE, Label(1, b)) : b \in 0..MaxTotal}

\* the document tables the site's procedure pages carry during a crawl
CrawlTables ==
    { NoTable,
      MkTable(<<MkRow(9, <<"Nome file">>, 0, <<>>)>>),
      MkTable(<<MkRow(9, <<"Nome file">>, 0, <<>>),
                MkRow(8, <<"a", ".pdf">>, 8, <<MkA(TRUE, File1, "Scarica il documento")>>),
                MkRow(9, <<"a", ".pdf">>, 9, <<MkA(TRUE, File1, "Scarica il documento")>>),
                MkRow(10, <<"b", ".pdf">>, 9, <<MkA(TRUE, File2, "Scarica il documento")>>)>>) }

Failure == [ok |-> FALSE, soup |-> MkSoup(MkPag(FALSE, FALSE, <<>>), <<>>, NoTable)]

Ok(soup) == [ok |-> TRUE, soup |-> soup]

\* the anchors a /Documentazione/ page carries
DocPageAnchors ==
    <<MkHref("", "Documentazione", Id2), MkHref("", "Info", Id1),
      MkHref("", "Documentazione", Id1)>>

\* the site behind the requests: free (a request may get any response) or
\* fixed (the same URL gets the same response every time)
VARIABLE site

\* the page number a URL asks for
PageOf(url) ==
    LET ps == {i \in 1..Len(url.query) : url.query[i][1] = "pagina"}
    IN  IF ps = {} THEN 1 ELSE url.query[CHOOSE i \in ps : TRUE][2]

\* what tells the pages of the site apart: path prefix, last segment, page
UrlKey(url) == <<url.kind, url.id, PageOf(url)>>

NoSite ==
    [fixed |-> FALSE, anchors |-> <<>>, pag |-> MkPag(FALSE, FALSE, <<>>),
     table |-> NoTable, bad |-> {}]

\* the pages of a fixed site that fail: none, or one of them
BrokenUrls ==
    { {}, {<<"Ricerca", <<>>, 2>>}, {<<"Info", Id1, 1>>},
      {<<"Documentazione", Id1, 2>>}, {<<"Documentazione", Id2, 1>>} }

\* the anchors a record page of a fixed site carries
SiteRecordAnchors == <<MkHref("", "Documentazione", Id1), MkHref("", "Documentazione", Id2)>>

\* fixed sites: the anchors of the search pages, the pagination label of the
\* search and document pages, the document table, the pages that fail
Sites ==
    { [fixed |-> TRUE, anchors |-> a, pag |-> p, table |-> t, bad |-> b] :
        a \in SeqsUpTo(SearchPageHrefs, MaxAnchors), p \in CrawlPags,
        t \in CrawlTables, b \in BrokenUrls }

\* the response of the fixed site s to a request for url
SiteResponse(s, url) ==
    IF UrlKey(url) \in s.bad THEN Failure
    ELSE CASE url.kind = "Ricerca" -> Ok(MkSoup(s.pag, s.anchors, NoTable))
           [] url.kind = "Info" ->
                Ok(MkSoup(MkPag(FALSE, FALSE, <<>>), SiteRecordAnchors, NoTable))
           [] OTHER -> Ok(MkSoup(s.pag, DocPageAnchors, s.table))

\* requests.get(url) followed by raise_for_status(): the responses a request
\* for url may get; Failure stands for any requests.RequestException.
\* A search page carries anchors and a pagination label, a record page
\* (/Info/) anchors, a /Documentazione/ page anchors, a label and a table.
requests_get(url) ==
    IF site.fixed THEN {SiteResponse(site, url)}
    ELSE {Failure} \cup
         CASE url.kind = "Ricerca" ->
                {Ok(MkSoup(p, a, NoTable)) :
                   p \in CrawlPags, a \in SeqsUpTo(SearchPageHrefs, MaxAnchors)}
           [] url.kind = "Info" ->
                {Ok(MkSoup(MkPag(FALSE, FALSE, <<>>), a, NoTable)) :
                   a \in SeqsUpTo(RecordPageHrefs, MaxAnchors)}
           [] OTHER ->
                {Ok(MkSoup(p, DocPageAnchors, t)) : p \in CrawlPags, t \in CrawlTables}

\* ------------------------------------------------------------ text helpers
\* str.strip(): without leading and trailing whitespace
RECURSIVE lstrip(_)
lstrip(s) == IF s # <<>> /\ IsSpace(Head(s)) THEN lstrip(Tail(s)) ELSE s

RECURSIVE rstrip(_)
rstrip(s) ==
    IF s # <<>> /\ IsSpace(s[Len(s)]) THEN rstrip(SubSeq(s, 1, Len(s) - 1)) ELSE s

strip(s) == rstrip(lstrip(s))

\* re.sub(r'[\\/*?:"<>|]', "_", s)
Unsafe == {"\\", "/", "*", "?", ":", "\"", "<", ">", "|"}

sanitize(s) == [i \in 1..Len(s) |-> IF s[i] \in Unsafe THEN "_" ELSE s[i]]

\* get_project_id(detail_url): the digits after "Info/" or "Documentazione/"
get_project_id(detail_url) ==
    IF /\ detail_url.kind \in {"Info", "Documentazione"}
       /\ DigitRunEnd(detail_url.id, 1) > 1
    THEN SubSeq(detail_url.id, 1, DigitRunEnd(detail_url.id, 1) - 1)
    ELSE <<"UnknownProject">>

\* os.path.join(...): a path is the sequence of its components
DOWNLOAD_FOLDER == <<"downloads">>

NoDir == <<>>

\* keywords the user may type
Keywords == {<<>>, <<" ", " ">>, <<"a", "/">>}

SearchTypes == {"o", "d"}

\* ------------------------------------------------------- link extraction
\* x in l, for a list l
InList(x, l) == \E i \in 1..Len(l) : l[i] = x

\* soup.select("a[href*='<link_pattern>']")
select_href(anchors, link_pattern) ==
    SelectSeq(anchors, LAMBDA h : HrefContains(h, link_pattern))

\* lines 79-83: the loop over the selected anchors of one search page
RECURSIVE add_selected_href_test(_, _)
add_selected_href_test(selected, all_links) ==
    IF selected = <<>> THEN all_links
    ELSE LET href == Head(selected)
             full_url == urljoin(BASE_URL, href)
         IN  add_selected_href_test(Tail(selected),
                                    IF ~InList(href, all_links)
                                    THEN Append(all_links, full_url)
                                    ELSE all_links)

RECURSIVE add_selected_newest_first(_, _)
add_selected_newest_first(selected, all_links) ==
    IF selected = <<>> THEN all_links
    ELSE LET full_url == urljoin(BASE_URL, Head(selected))
         IN  add_selected_newest_first(Tail(selected),
                                       IF ~InList(full_url, all_links)
                                       THEN <<full_url>> \o all_links
                                       ELSE all_links)

RECURSIVE add_selected(_, _)
add_selected(selected, all_links) ==
    IF selected = <<>> THEN all_links
    ELSE LET full_url == urljoin(BASE_URL, Head(selected))
         IN  add_selected(Tail(selected),
                          IF ~InList(full_url, all_links)
                          THEN Append(all_links, full_url)
                          ELSE all_links)

\* lines 121-126: the loop over all anchors of a detail page
RECURSIVE add_procedura(_, _)
add_procedura(anchors, procedura_links) ==
    IF anchors = <<>> THEN procedura_links
    ELSE LET href == Head(anchors)
             full_url == urljoin(BASE_URL, href)
         IN  add_procedura(Tail(anchors),
                           IF /\ HrefContains(href, "Documentazione")
                              /\ ~InList(full_url, procedura_links)
                           THEN Append(procedura_links, full_url)
                           ELSE procedura_links)

\* line 56: st.cache_data keeps one entry per (keyword, search_type)
CacheKeys == Keywords \X SearchTypes

NoEntry == [hit |-> FALSE, value |-> <<>>]

Entry(value) == [hit |-> TRUE, value |-> value]

\* ---------------------------------------------------------------- state
VARIABLES
    pc,               \* where the page's script stands
    keyword,          \* the text input
    search_type,      \* the selectbox, "o" or "d"
    detail_urls,      \* st.session_state.detail_urls
    results_info,     \* st.session_state.results_info
    base_save_dir,    \* st.session_state.base_save_dir
    msg,              \* the last st.error / st.success of the Search handler
    page,             \* page of the running pagination walk
    all_links,        \* all_links of collect_search_results
    detail_i,         \* position of the for loop of line 288 in detail_urls
    procedure_urls,   \* procedure_urls of the record at hand
    proc_i,           \* position of the for loop of line 294
    doc_links,        \* doc_links of get_document_links
    idle_time,        \* time slept since the run's last request, -1 before its first
    walk_log,         \* the requests of the running walk and what they got
    detail_log,       \* the get_procedura_links calls of the run and their results
    cache,            \* the results st.cache_data keeps of collect_search_results
    seen,             \* on a fixed site: what the earlier runs of each search left
    files,            \* the files under DOWNLOAD_FOLDER
    dl_i,             \* position of the for loop of line 322 in results_info
    dl_j,             \* position of the for loop of line 323 in doc_links
    dl_event,         \* what the last download_file call did
    fn, arg, ret, returned   \* a function called on its own: name, input, result

crawl_vars ==
    <<pc, keyword, search_type, detail_urls, results_info, base_save_dir, msg, page,
      all_links, detail_i, procedure_urls, proc_i, doc_links, idle_time, walk_log,
      detail_log, cache, site, seen, files, dl_i, dl_j, dl_event>>

dl_vars == <<files, dl_i, dl_j, dl_event>>

fn_vars == <<fn, arg, ret, returned>>

vars == <<crawl_vars, fn_vars>>

\* no Search run has ended yet
NoRun == [runs |-> 0, value |-> <<>>]

\* no download_file call yet
NoEvent == [kind |-> "none", url |-> MkHref("", "", <<>>), path |-> <<>>]

\* the state of the page after its first run (lines 246-261)
InitSession ==
    /\ pc = "idle"
    /\ keyword = <<>>
    /\ search_type = "o"
    /\ detail_urls = <<>>
    /\ results_info = <<>>
    /\ base_save_dir = NoDir
    /\ msg = ""
    /\ page = 1
    /\ all_links = <<>>
    /\ detail_i = 1
    /\ procedure_urls = <<>>
    /\ proc_i = 1
    /\ doc_links = <<>>
    /\ idle_time = -1
    /\ walk_log = <<>>
    /\ detail_log = <<>>
    /\ cache = [k \in CacheKeys |-> NoEntry]
    /\ seen = [k \in CacheKeys |-> NoRun]
    /\ files = {}
    /\ dl_i = 1
    /\ dl_j = 1
    /\ dl_event = NoEvent

InitCrawl == InitSession /\ site = NoSite

NoCall == fn = "" /\ arg = <<>> /\ ret = <<>> /\ returned = FALSE

Init == InitCrawl /\ NoCall

\* an entry of walk_log
LogEntry(pg, ok, total, table, items) ==
    [page |-> pg, ok |-> ok, total |-> total, table |-> table, items |-> items]

\* what a script run leaves of its local variables
ResetLocals ==
    /\ page' = 1
    /\ all_links' = <<>>
    /\ detail_i' = 1
    /\ procedure_urls' = <<>>
    /\ proc_i' = 1
    /\ doc_links' = <<>>
    /\ walk_log' = <<>>

\* ---------------------------------------------------------------- the page
\* line 246: the user edits the keyword
TypeKeyword ==
    /\ pc = "idle"
    /\ \E kw \in Keywords \ {keyword} : keyword' = kw
    /\ UNCHANGED <<pc, search_type, detail_urls, results_info, base_save_dir, msg, page,
                   all_links, detail_i, procedure_urls, proc_i, doc_links, idle_time,
                   walk_log, detail_log, fn_vars, cache,
                   dl_vars, site, seen>>

\* lines 247-253: the user picks the search type
ChooseSearchType ==
    /\ pc = "idle"
    /\ \E t \in SearchTypes \ {search_type} : search_type' = t
    /\ UNCHANGED <<pc, keyword, detail_urls, results_info, base_save_dir, msg, page,
                   all_links, detail_i, procedure_urls, proc_i, doc_links, idle_time,
                   walk_log, detail_log, fn_vars, cache,
                   dl_vars, site, seen>>

\* lines 264-282: the Search button, up to the call of collect_search_results;
\* line 56: a call st.cache_data has an entry for returns the kept list without
\* running the function
ClickSearch_strip_missing ==
    /\ pc = "idle"
    /\ IF keyword = <<>>
       THEN /\ msg' = "Please provide a keyword before searching."
            /\ UNCHANGED <<pc, detail_urls, results_info, base_save_dir, page, all_links,
                           detail_i, procedure_urls, proc_i, doc_links, idle_time,
                           walk_log, detail_log>>
       ELSE /\ detail_urls' = <<>>
            /\ results_info' = <<>>
            /\ base_save_dir' =
                 <<DOWNLOAD_FOLDER, sanitize(keyword),
                   IF search_type = "o" THEN <<"Progetti">> ELSE <<"Documenti">>>>
            /\ msg' = "Collecting search results..."
            /\ page' = 1
            /\ detail_i' = 1
            /\ procedure_urls' = <<>>
            /\ proc_i' = 1
            /\ doc_links' = <<>>
            /\ walk_log' = <<>>
            /\ idle_time' = -1
            /\ detail_log' = <<>>
            /\ IF cache[<<keyword, search_type>>].hit
               THEN /\ all_links' = cache[<<keyword, search_type>>].value
                    /\ pc' = "collected"
               ELSE /\ all_links' = <<>>
                    /\ pc' = "collect"
    /\ UNCHANGED <<keyword, search_type, fn_vars, cache,
                   dl_vars, site, seen>>

ClickSearch_keeps_results_info ==
    /\ pc = "idle"
    /\ IF strip(keyword) = <<>>
       THEN /\ msg' = "Please provide a keyword before searching."
            /\ UNCHANGED <<pc, detail_urls, results_info, base_save_dir, page, all_links,
                           detail_i, procedure_urls, proc_i, doc_links, idle_time,
                           walk_log, detail_log>>
       ELSE /\ detail_urls' = <<>>
            /\ UNCHANGED results_info
            /\ base_save_dir' =
                 <<DOWNLOAD_FOLDER, sanitize(keyword),
                   IF search_type = "o" THEN <<"Progetti">> ELSE <<"Documenti">>>>
            /\ msg' = "Collecting search results..."
            /\ page' = 1
            /\ detail_i' = 1
            /\ procedure_urls' = <<>>
            /\ proc_i' = 1
            /\ doc_links' = <<>>
            /\ walk_log' = <<>>
            /\ idle_time' = -1
            /\ detail_log' = <<>>
            /\ IF cache[<<keyword, search_type>>].hit
               THEN /\ all_links' = cache[<<keyword, search_type>>].value
                    /\ pc' = "collected"
               ELSE /\ all_links' = <<>>
                    /\ pc' = "collect"
    /\ UNCHANGED <<keyword, search_type, fn_vars, cache,
                   dl_vars, site, seen>>

ClickSearch ==
    /\ pc = "idle"
    /\ IF strip(keyword) = <<>>
       THEN /\ msg' = "Please provide a keyword before searching."
            /\ UNCHANGED <<pc, detail_urls, results_info, base_save_dir, page, all_links,
                           detail_i, procedure_urls, proc_i, doc_links, idle_time,
                           walk_log, detail_log>>
       ELSE /\ detail_urls' = <<>>
            /\ results_info' = <<>>
            /\ base_save_dir' =
                 <<DOWNLOAD_FOLDER, sanitize(keyword),
                   IF search_type = "o" THEN <<"Progetti">> ELSE <<"Documenti">>>>
            /\ msg' = "Collecting search results..."
            /\ page' = 1
            /\ detail_i' = 1
            /\ procedure_urls' = <<>>
            /\ proc_i' = 1
            /\ doc_links' = <<>>
            /\ walk_log' = <<>>
            /\ idle_time' = -1
            /\ detail_log' = <<>>
            /\ IF cache[<<keyword, search_type>>].hit
               THEN /\ all_links' = cache[<<keyword, search_type>>].value
                    /\ pc' = "collected"
               ELSE /\ all_links' = <<>>
                    /\ pc' = "collect"
    /\ UNCHANGED <<keyword, search_type, fn_vars, cache,
                   dl_vars, site, seen>>

\* lines 67-69: the request of a search page failed
SearchFetchFailed_return_empty ==
    /\ pc' = "collected"
    /\ walk_log' = Append(walk_log, LogEntry(page, FALSE, 0, FALSE, <<>>))
    /\ idle_time' = 0
    /\ all_links' = <<>>
    /\ UNCHANGED page

SearchFetchFailed ==
    /\ pc' = "collected"
    /\ walk_log' = Append(walk_log, LogEntry(page, FALSE, 0, FALSE, <<>>))
    /\ idle_time' = 0
    /\ UNCHANGED <<page, all_links>>

\* lines 71-91: the search page was fetched
SearchParsed_page_replaces_list(soup) ==
    LET link_pattern == IF search_type = "o" THEN "Info" ELSE "Documentazione"
        selected == select_href(soup.anchors, link_pattern)
        total_pages == find_total_pages(soup.pag)
    IN  /\ all_links' = add_selected(selected, <<>>)
        /\ walk_log' =
             Append(walk_log,
                    LogEntry(page, TRUE, total_pages, FALSE,
                             [i \in 1..Len(selected) |-> urljoin(BASE_URL, selected[i])]))
        /\ IF page >= total_pages
           THEN /\ pc' = "collected"
                /\ idle_time' = 0
                /\ page' = page
           ELSE /\ page' = page + 1
                /\ idle_time' = DELAY_BETWEEN_REQUESTS
                /\ pc' = "collect"

SearchParsed(soup) ==
    LET link_pattern == IF search_type = "o" THEN "Info" ELSE "Documentazione"
        selected == select_href(soup.anchors, link_pattern)
        total_pages == find_total_pages(soup.pag)
    IN  /\ all_links' = add_selected(selected, all_links)
        /\ walk_log' =
             Append(walk_log,
                    LogEntry(page, TRUE, total_pages, FALSE,
                             [i \in 1..Len(selected) |-> urljoin(BASE_URL, selected[i])]))
        /\ IF page >= total_pages
           THEN /\ pc' = "collected"
                /\ idle_time' = 0
                /\ page' = page
           ELSE /\ page' = page + 1
                /\ idle_time' = DELAY_BETWEEN_REQUESTS
                /\ pc' = "collect"

\* lines 62-91: one pass of the loop of collect_search_results
SearchPage ==
    /\ pc = "collect"
    /\ \E resp \in requests_get(build_search_url(keyword, search_type, page)) :
         IF ~resp.ok THEN SearchFetchFailed ELSE SearchParsed(resp.soup)
    /\ UNCHANGED <<keyword, search_type, detail_urls, results_info, base_save_dir, msg,
                   detail_i, procedure_urls, proc_i, doc_links, detail_log, fn_vars, cache,
                   dl_vars, site, seen>>

\* lines 282-288: collect_search_results returns, the loop over the records starts;
\* line 56: st.cache_data keeps the returned list for the call's arguments
CollectReturn ==
    /\ pc = "collected"
    /\ detail_urls' = all_links
    /\ msg' = "Found detail URLs."
    /\ ResetLocals
    /\ pc' = "for_detail"
    /\ cache' = [cache EXCEPT ![<<keyword, search_type>>] = Entry(all_links)]
    /\ UNCHANGED <<keyword, search_type, results_info, base_save_dir, idle_time,
                   detail_log, fn_vars,
                   dl_vars, site, seen>>

\* lines 288-291 and 300: the head of the loop over detail_urls
ForDetail ==
    /\ pc = "for_detail"
    /\ IF detail_i > Len(detail_urls)
       THEN /\ msg' = "All procedures parsed."
            /\ pc' = "idle"
            /\ ResetLocals
            /\ idle_time' = -1
            /\ seen' =
                 IF site.fixed
                 THEN [seen EXCEPT ![<<keyword, search_type>>] =
                         [runs |-> IF @.runs < 2 THEN @.runs + 1 ELSE 2,
                          value |-> <<detail_urls, results_info>>]]
                 ELSE seen
       ELSE /\ pc' = "get_procedura_links"
            /\ UNCHANGED <<msg, page, all_links, detail_i, procedure_urls, proc_i,
                           doc_links, walk_log, idle_time, seen>>
    /\ UNCHANGED <<keyword, search_type, detail_urls, results_info, base_save_dir,
                   detail_log, fn_vars, cache,
                   dl_vars, site>>

\* lines 110-128: what get_procedura_links returns for a response
procedura_links_of(resp) ==
    IF ~resp.ok THEN <<>> ELSE add_procedura(resp.soup.anchors, <<>>)

\* lines 293 and 106-128: get_procedura_links(detail_url)
GetProceduraLinks_failure_ends_run ==
    /\ pc = "get_procedura_links"
    /\ \E resp \in requests_get(detail_urls[detail_i]) :
         /\ procedure_urls' = procedura_links_of(resp)
         /\ detail_log' =
              Append(detail_log,
                     [url |-> detail_urls[detail_i], ok |-> resp.ok,
                      links |-> procedura_links_of(resp)])
         /\ pc' = IF resp.ok THEN "for_proc" ELSE "for_detail"
         /\ detail_i' = IF resp.ok THEN detail_i ELSE Len(detail_urls) + 1
    /\ proc_i' = 1
    /\ idle_time' = 0
    /\ UNCHANGED <<keyword, search_type, detail_urls, results_info, base_save_dir, msg,
                   page, all_links, doc_links, walk_log, fn_vars, cache,
                   dl_vars, site, seen>>

GetProceduraLinks ==
    /\ pc = "get_procedura_links"
    /\ \E resp \in requests_get(detail_urls[detail_i]) :
         /\ procedure_urls' = procedura_links_of(resp)
         /\ detail_log' =
              Append(detail_log,
                     [url |-> detail_urls[detail_i], ok |-> resp.ok,
                      links |-> procedura_links_of(resp)])
    /\ proc_i' = 1
    /\ idle_time' = 0
    /\ pc' = "for_proc"
    /\ UNCHANGED <<keyword, search_type, detail_urls, results_info, base_save_dir, msg,
                   page, all_links, detail_i, doc_links, walk_log, fn_vars, cache,
                   dl_vars, site, seen>>

\* line 294: the head of the loop over procedure_urls
ForProc ==
    /\ pc = "for_proc"
    /\ IF proc_i > Len(procedure_urls)
       THEN /\ detail_i' = detail_i + 1
            /\ procedure_urls' = <<>>
            /\ proc_i' = 1
            /\ pc' = "for_detail"
       ELSE /\ pc' = "doc"
            /\ UNCHANGED <<detail_i, procedure_urls, proc_i>>
    /\ page' = 1
    /\ doc_links' = <<>>
    /\ walk_log' = <<>>
    /\ UNCHANGED <<keyword, search_type, detail_urls, results_info, base_save_dir, msg,
                   all_links, idle_time, detail_log, fn_vars, cache,
                   dl_vars, site, seen>>

\* lines 158-160: the request of a document page failed
DocFetchFailed_return_empty ==
    /\ pc' = "doc_done"
    /\ walk_log' = Append(walk_log, LogEntry(page, FALSE, 0, FALSE, <<>>))
    /\ idle_time' = 0
    /\ doc_links' = <<>>
    /\ UNCHANGED page

DocFetchFailed ==
    /\ pc' = "doc_done"
    /\ walk_log' = Append(walk_log, LogEntry(page, FALSE, 0, FALSE, <<>>))
    /\ idle_time' = 0
    /\ UNCHANGED <<page, doc_links>>

\* lines 184-192: the check for more document pages
DocMorePages_one_page_more(total_pages) ==
    IF page > total_pages
    THEN /\ pc' = "doc_done"
         /\ idle_time' = 0
         /\ page' = page
    ELSE /\ page' = page + 1
         /\ idle_time' = DELAY_BETWEEN_REQUESTS
         /\ pc' = "doc"

DocMorePages(total_pages) ==
    IF page >= total_pages
    THEN /\ pc' = "doc_done"
         /\ idle_time' = 0
         /\ page' = page
    ELSE /\ page' = page + 1
         /\ idle_time' = DELAY_BETWEEN_REQUESTS
         /\ pc' = "doc"

\* lines 162-192: the document page was fetched
DocParsed_no_table_goes_on(soup) ==
    LET table == soup.table
        total_pages == find_total_pages(soup.pag)
    IN  /\ doc_links' = IF table.present THEN table_documents(table, doc_links)
                        ELSE doc_links
        /\ walk_log' =
             Append(walk_log,
                    LogEntry(page, TRUE, total_pages, table.present,
                             IF table.present THEN table_documents(table, <<>>)
                             ELSE <<>>))
        /\ DocMorePages(total_pages)

DocParsed(soup) ==
    LET table == soup.table
        total_pages == find_total_pages(soup.pag)
    IN  IF ~table.present
        THEN /\ pc' = "doc_done"
             /\ walk_log' =
                  Append(walk_log, LogEntry(page, TRUE, total_pages, FALSE, <<>>))
             /\ idle_time' = 0
             /\ UNCHANGED <<page, doc_links>>
        ELSE /\ doc_links' = table_documents(table, doc_links)
             /\ walk_log' =
                  Append(walk_log,
                         LogEntry(page, TRUE, total_pages, TRUE,
                                  table_documents(table, <<>>)))
             /\ DocMorePages(total_pages)

\* lines 145-192: one pass of the loop of get_document_links
DocumentPage ==
    /\ pc = "doc"
    /\ \E resp \in requests_get(document_page_url(procedure_urls[proc_i], page)) :
         IF ~resp.ok THEN DocFetchFailed ELSE DocParsed(resp.soup)
    /\ UNCHANGED <<keyword, search_type, detail_urls, results_info, base_save_dir, msg,
                   all_links, detail_i, procedure_urls, proc_i, detail_log, fn_vars, cache,
                   dl_vars, site, seen>>

\* lines 295-298: get_document_links returns, the tuple is stored
DocReturn_folder_outside_base ==
    /\ pc = "doc_done"
    /\ results_info' =
         Append(results_info,
                <<detail_urls[detail_i], procedure_urls[proc_i], doc_links,
                  <<DOWNLOAD_FOLDER, get_project_id(detail_urls[detail_i])>>>>)
    /\ proc_i' = proc_i + 1
    /\ page' = 1
    /\ doc_links' = <<>>
    /\ walk_log' = <<>>
    /\ pc' = "for_proc"
    /\ UNCHANGED <<keyword, search_type, detail_urls, base_save_dir, msg, all_links,
                   detail_i, procedure_urls, idle_time, detail_log, fn_vars, cache,
                   dl_vars, site, seen>>

DocReturn ==
    /\ pc = "doc_done"
    /\ results_info' =
         Append(results_info,
                <<detail_urls[detail_i], procedure_urls[proc_i], doc_links,
                  Append(base_save_dir, get_project_id(detail_urls[detail_i]))>>)
    /\ proc_i' = proc_i + 1
    /\ page' = 1
    /\ doc_links' = <<>>
    /\ walk_log' = <<>>
    /\ pc' = "for_proc"
    /\ UNCHANGED <<keyword, search_type, detail_urls, base_save_dir, msg, all_links,
                   detail_i, procedure_urls, idle_time, detail_log, fn_vars, cache,
                   dl_vars, site, seen>>

Next ==
    \/ TypeKeyword
    \/ ChooseSearchType
    \/ ClickSearch
    \/ SearchPage
    \/ CollectReturn
    \/ ForDetail
    \/ GetProceduraLinks
    \/ ForProc
    \/ DocumentPage
    \/ DocReturn

Spec == Init /\ [][Next]_vars

\* the steps of a script run: the script runs on to its end once started
RunStep ==
    \/ SearchPage
    \/ CollectReturn
    \/ ForDetail
    \/ GetProceduraLinks
    \/ ForProc
    \/ DocumentPage
    \/ DocReturn

FairSpec == Spec /\ WF_vars(RunStep)

\* the page in front of a fixed site
InitSite == InitSession /\ NoCall /\ site \in Sites

SpecSite == InitSite /\ [][Next]_vars

\* ------------------------------------------- find_total_pages on its own
\* tokens of a pagination label text
LabelAlphabet == {"Pagina", "di", " ", "0", "2"}

\* the markup find_total_pages is called on: any label text under a
\* pagination container, and pages that lack the container or the label
\* element (a label text elsewhere on the page does not count)
PagInputs ==
    {MkPag(TRUE, TRUE, t) : t \in SeqsUpTo(LabelAlphabet, MaxLabelLen)}
    \cup {MkPag(u, l, t) : u \in BOOLEAN, l \in BOOLEAN,
                           t \in {<<>>, Label(0, 2), Label(2, 0)}}

InitPages ==
    /\ InitCrawl
    /\ fn = "find_total_pages"
    /\ arg \in PagInputs
    /\ ret = <<>>
    /\ returned = FALSE

\* lines 34-51: the call find_total_pages(soup), its result in ret[1]
CallFindTotalPages ==
    /\ fn = "find_total_pages"
    /\ ~returned
    /\ ret' = <<find_total_pages(arg)>>
    /\ returned' = TRUE
    /\ UNCHANGED <<fn, arg, crawl_vars>>

NextPages == CallFindTotalPages

SpecPages == InitPages /\ [][NextPages]_vars

\* --------------------------------- the document table parse on its own
\* the tables of a document page: up to MaxRows rows, the first the header
TableInputs == {MkTable(rows) : rows \in SeqsUpTo(RowShapes, MaxRows)}

\* doc_links as earlier pages may have left it
PriorDocLinks == {<<>>, <<<<urljoin(BASE_URL, File2), <<"b", ".pdf">>>>>>}

InitTable ==
    /\ InitCrawl
    /\ fn = "table_documents"
    /\ arg \in [table : TableInputs, doc_links : PriorDocLinks]
    /\ ret = <<>>
    /\ returned = FALSE

\* lines 170-182 on one page's table, the new doc_links in ret
CallTableDocuments ==
    /\ fn = "table_documents"
    /\ ~returned
    /\ ret' = table_documents(arg.table, arg.doc_links)
    /\ returned' = TRUE
    /\ UNCHANGED <<fn, arg, crawl_vars>>

NextTable == CallTableDocuments

SpecTable == InitTable /\ [][NextTable]_vars

\* --------------------------------- collect_search_results on its own
\* the record links page pg of the fixture site may list: records 1..3 on
\* page 1, records 3..5 on page 2, record 5 on every later page
FixtureLinks(pg) ==
    LET ids == IF pg = 1 THEN {1, 2, 3} ELSE IF pg = 2 THEN {3, 4, 5} ELSE {5}
    IN  {MkHref("", "Info", <<DigitOf(n)>>) : n \in ids}

\* the responses the request of search page pg of the fixture site may get
FixtureResponses(pg) ==
    {Failure} \cup
    {Ok(MkSoup(p, a, NoTable)) :
       p \in CrawlPags, a \in SeqsUpTo(FixtureLinks(pg), MaxPageLinks)}

\* line 57: the call collect_search_results(keyword, search_type)
InitCollect ==
    /\ fn = "collect_search_results"
    /\ arg \in {<<kw, t>> : kw \in {k \in Keywords : strip(k) # <<>>}, t \in SearchTypes}
    /\ ret = <<>>
    /\ returned = FALSE
    /\ pc = "collect"
    /\ keyword = arg[1]
    /\ search_type = arg[2]
    /\ detail_urls = <<>>
    /\ results_info = <<>>
    /\ base_save_dir = NoDir
    /\ msg = ""
    /\ page = 1
    /\ all_links = <<>>
    /\ detail_i = 1
    /\ procedure_urls = <<>>
    /\ proc_i = 1
    /\ doc_links = <<>>
    /\ idle_time = -1
    /\ walk_log = <<>>
    /\ detail_log = <<>>
    /\ cache = [k \in CacheKeys |-> NoEntry]
    /\ seen = [k \in CacheKeys |-> NoRun]
    /\ files = {}
    /\ dl_i = 1
    /\ dl_j = 1
    /\ dl_event = NoEvent
    /\ site = NoSite

\* lines 62-91: one pass of the loop of collect_search_results, the page
\* served by the fixture site
SearchPageOfFixture ==
    /\ fn = "collect_search_results"
    /\ pc = "collect"
    /\ \E resp \in FixtureResponses(page) :
         IF ~resp.ok THEN SearchFetchFailed ELSE SearchParsed(resp.soup)
    /\ UNCHANGED <<keyword, search_type, detail_urls, results_info, base_save_dir, msg,
                   detail_i, procedure_urls, proc_i, doc_links, detail_log, fn_vars, cache,
                   dl_vars, site, seen>>

\* line 93: return all_links
ReturnAllLinks ==
    /\ fn = "collect_search_results"
    /\ pc = "collected"
    /\ ~returned
    /\ ret' = all_links
    /\ returned' = TRUE
    /\ UNCHANGED <<fn, arg, crawl_vars>>

NextCollect == SearchPageOfFixture \/ ReturnAllLinks

SpecCollect == InitCollect /\ [][NextCollect]_vars

\* ----------------------------------------------- get_project_id on its own
\* tokens of the path of a URL after its prefix
IdAlphabet == {"1", "2", "a", "/"}

\* the URLs get_project_id is called on
ProjectUrls ==
    {MkHref(BASE_URL, k, id) :
       k \in {"Info", "Documentazione", "File"}, id \in SeqsUpTo(IdAlphabet, MaxIdLen)}

InitProjectId ==
    /\ InitCrawl
    /\ fn = "get_project_id"
    /\ arg \in ProjectUrls
    /\ ret = <<>>
    /\ returned = FALSE

\* lines 96-103: the call get_project_id(detail_url)
CallGetProjectId ==
    /\ fn = "get_project_id"
    /\ ~returned
    /\ ret' = get_project_id(arg)
    /\ returned' = TRUE
    /\ UNCHANGED <<fn, arg, crawl_vars>>

NextProjectId == CallGetProjectId

SpecProjectId == InitProjectId /\ [][NextProjectId]_vars

\* ------------------------------------------------------- Download All
\* os.path.exists(local_path)
exists(local_path) == \E f \in files : f.path = local_path

\* a file on disk: its path, the URL its bytes came from, whether all of them
\* were written
MkFile(local_path, url, complete) ==
    [path |-> local_path, url |-> url, complete |-> complete]

MkEvent(kind, url, local_path) == [kind |-> kind, url |-> url, path |-> local_path]

\* lines 198-220: download_file(url, nome_file, save_path). The request may
\* fail before the file is opened (lines 210-211), the stream may break after
\* open() has created the file (lines 212-215), or all chunks are written;
\* the except clause of line 218 ends the call in every case.
download_file(url, nome_file, save_path) ==
    LET safe_filename == sanitize(nome_file)
        local_path == Append(save_path, safe_filename)
    IN  IF exists(local_path)
        THEN /\ dl_event' = MkEvent("skipped", url, local_path)
             /\ UNCHANGED files
        ELSE \/ /\ dl_event' = MkEvent("failed", url, local_path)
                /\ UNCHANGED files
             \/ /\ dl_event' = MkEvent("broken", url, local_path)
                /\ files' = files \cup {MkFile(local_path, url, FALSE)}
             \/ /\ dl_event' = MkEvent("saved", url, local_path)
                /\ files' = files \cup {MkFile(local_path, url, TRUE)}

\* lines 320-321: the Download All Locally button, shown when detail_urls is
\* not empty (line 303)
ClickDownloadAll ==
    /\ pc = "idle"
    /\ detail_urls # <<>>
    /\ pc' = "download"
    /\ msg' = "Starting bulk download..."
    /\ dl_i' = 1
    /\ dl_j' = 1
    /\ UNCHANGED <<keyword, search_type, detail_urls, results_info, base_save_dir, page,
                   all_links, detail_i, procedure_urls, proc_i, doc_links, idle_time,
                   walk_log, detail_log, cache, site, seen, files, dl_event, fn_vars>>

\* lines 322-326: one pass of the loops over results_info and doc_links, the
\* sleep of line 325 after each download_file call
DownloadStep ==
    /\ pc = "download"
    /\ IF dl_i > Len(results_info)
       THEN /\ pc' = "idle"
            /\ msg' = "All files have been downloaded to local disk."
            /\ UNCHANGED <<dl_i, dl_j, files, dl_event, idle_time>>
       ELSE LET doc_links_i == results_info[dl_i][3]
                project_folder == results_info[dl_i][4]
            IN  IF dl_j > Len(doc_links_i)
                THEN /\ dl_i' = dl_i + 1
                     /\ dl_j' = 1
                     /\ UNCHANGED <<pc, msg, files, dl_event, idle_time>>
                ELSE /\ download_file(doc_links_i[dl_j][1], doc_links_i[dl_j][2],
                                      project_folder)
                     /\ idle_time' = DELAY_BETWEEN_REQUESTS
                     /\ dl_j' = dl_j + 1
                     /\ UNCHANGED <<pc, msg, dl_i>>
    /\ UNCHANGED <<keyword, search_type, detail_urls, results_info, base_save_dir, page,
                   all_links, detail_i, procedure_urls, proc_i, doc_links, walk_log,
                   detail_log, cache, site, seen, fn_vars>>

\* the documents a procedure may have been found to hold
DocEntries ==
    { <<urljoin(BASE_URL, File1), <<"a", ".pdf">>>>,
      <<urljoin(BASE_URL, File2), <<"a", ".pdf">>>>,
      <<urljoin(BASE_URL, File2), <<"b", ".pdf">>>> }

\* results_info as a Search for kw of type "o" leaves it when it found the
\* record /Info/1 with one or two procedures
DownloadResults(kw) ==
    LET detail_url == urljoin(BASE_URL, MkHref("", "Info", Id1))
        folder == <<DOWNLOAD_FOLDER, sanitize(kw), <<"Progetti">>, get_project_id(detail_url)>>
        tuple(id, docs) ==
            <<detail_url, urljoin(BASE_URL, MkHref("", "Documentazione", id)), docs, folder>>
        lists == SeqsUpTo(DocEntries, MaxDocs)
    IN  {<<tuple(Id1, l)>> : l \in lists}
        \cup {<<tuple(Id1, l), tuple(Id2, m)>> : l \in lists, m \in lists}

\* the page after a Search run that found the record /Info/1
InitDownload ==
    /\ NoCall
    /\ site = NoSite
    /\ pc = "idle"
    /\ keyword = <<"a", "/">>
    /\ search_type = "o"
    /\ detail_urls = <<urljoin(BASE_URL, MkHref("", "Info", Id1))>>
    /\ results_info \in DownloadResults(keyword)
    /\ base_save_dir = <<DOWNLOAD_FOLDER, sanitize(keyword), <<"Progetti">>>>
    /\ msg = "All procedures parsed."
    /\ page = 1
    /\ all_links = <<>>
    /\ detail_i = 1
    /\ procedure_urls = <<>>
    /\ proc_i = 1
    /\ doc_links = <<>>
    /\ idle_time = -1
    /\ walk_log = <<>>
    /\ detail_log = <<>>
    /\ cache = [k \in CacheKeys |->
                  IF k = <<keyword, search_type>> THEN Entry(detail_urls) ELSE NoEntry]
    /\ seen = [k \in CacheKeys |-> NoRun]
    /\ files = {}
    /\ dl_i = 1
    /\ dl_j = 1
    /\ dl_event = NoEvent

NextDownload == ClickDownloadAll \/ DownloadStep

SpecDownload == InitDownload /\ [][NextDownload]_vars

\* =================================================================== claims
\* the last entry of a non-empty list
Last(s) == s[Len(s)]

\* no element occurs twice in the list s
NoDuplicates(s) == \A i, j \in 1..Len(s) : i # j => s[i] # s[j]

\* the positions of s that hold the first occurrence of their element
FirstPositions(s) == {i \in 1..Len(s) : \A j \in 1..(i - 1) : s[j] # s[i]}

\* s with every element kept only at its first occurrence
FirstOccurrences(s) ==
    LET firsts == FirstPositions(s)
    IN  [k \in 1..Cardinality(firsts) |->
           s[CHOOSE i \in firsts : Cardinality({j \in firsts : j <= i}) = k]]

\* the items of the first n entries of a walk's log, joined in page order
RECURSIVE ItemsOfPages(_, _)
ItemsOfPages(log, n) ==
    IF n = 0 THEN <<>> ELSE ItemsOfPages(log, n - 1) \o log[n].items

\* the search walk is under way or has just returned
InSearchWalk == pc \in {"collect", "collected"}

\* the document walk is under way or has just returned
InDocWalk == pc \in {"doc", "doc_done"}

\* C1: when the fetch of search page n fails, the walk has ended, the failed
\* request is the walk's last one, pages 1..n were each requested once and in
\* order, and the list returned is the deduplicated links of pages 1..n-1.
C1_SearchFailureEndsWalk ==
    InSearchWalk =>
      \A n \in 1..Len(walk_log) :
        ~walk_log[n].ok =>
          /\ pc = "collected"
          /\ n = Len(walk_log)
          /\ \A k \in 1..n : walk_log[k].page = k
          /\ all_links = FirstOccurrences(ItemsOfPages(walk_log, n - 1))

\* C1 witness: page 2 failed after page 1 gave links
C1_Witness ==
    /\ pc = "collected"
    /\ Len(walk_log) = 2
    /\ ~walk_log[2].ok
    /\ Len(all_links) = 2

\* C4: all_links of collect_search_results and the list get_procedura_links
\* returns never hold the same resolved URL twice.
C4_NoDuplicateLinks ==
    /\ NoDuplicates(all_links)
    /\ NoDuplicates(procedure_urls)
    /\ NoDuplicates(detail_urls)
    /\ \A i \in 1..Len(detail_log) : NoDuplicates(detail_log[i].links)

\* C4 witness: a search page carried a URL twice and the next page carried it
\* again
C4_Witness ==
    /\ pc = "collected"
    /\ Len(walk_log) = 2
    /\ ~NoDuplicates(walk_log[1].items)
    /\ \E i \in 1..Len(walk_log[2].items) : InList(walk_log[2].items[i], walk_log[1].items)
    /\ Len(all_links) = 2

\* C7: when the fetch of document page n fails, get_document_links has
\* returned the entries of pages 1..n-1, in order and unchanged.
C7_DocFailureKeepsEarlierPages ==
    InDocWalk =>
      \A n \in 1..Len(walk_log) :
        ~walk_log[n].ok =>
          /\ pc = "doc_done"
          /\ n = Len(walk_log)
          /\ doc_links = ItemsOfPages(walk_log, n - 1)

\* C7 witness: document page 2 failed after page 1 gave entries
C7_Witness ==
    /\ pc = "doc_done"
    /\ Len(walk_log) = 2
    /\ ~walk_log[2].ok
    /\ Len(doc_links) = 2

\* the (record URL, procedure URL) pairs of the first n get_procedura_links
\* calls of the run, in discovery order
RECURSIVE PairsOfLog(_, _)
PairsOfLog(log, n) ==
    IF n = 0 THEN <<>>
    ELSE PairsOfLog(log, n - 1)
         \o [k \in 1..Len(log[n].links) |-> <<log[n].url, log[n].links[k]>>]

\* a Search run has reached its end (line 300)
RunEnded == pc = "idle" /\ base_save_dir # NoDir

\* C2 (what the run leaves): at the end of a Search run the detail page of
\* every record of detail_urls was fetched, in order, and results_info holds
\* exactly one tuple per (record, procedure) pair, in discovery order; while
\* the run is under way the same holds of the records reached so far.
C2_Isolation ==
    /\ Len(detail_log) <= Len(detail_urls)
    /\ \A k \in 1..Len(detail_log) : detail_log[k].url = detail_urls[k]
    /\ RunEnded =>
         /\ Len(detail_log) = Len(detail_urls)
         /\ Len(results_info) = Len(PairsOfLog(detail_log, Len(detail_log)))
    /\ LET pairs == PairsOfLog(detail_log, Len(detail_log))
       IN  /\ Len(results_info) <= Len(pairs)
           /\ \A k \in 1..Len(results_info) :
                /\ results_info[k][1] = pairs[k][1]
                /\ results_info[k][2] = pairs[k][2]

\* C2: isolate-and-continue: the invariant above holds, and a run that has
\* started always reaches its end.
C2_IsolateAndContinue ==
    /\ []C2_Isolation
    /\ (pc # "idle") ~> (pc = "idle" /\ msg = "All procedures parsed.")

\* C2 witness: the run ended; the first record's detail page failed and the
\* second record still gave two tuples, the first of them with no document
C2_Witness ==
    /\ RunEnded
    /\ Len(detail_log) = 2
    /\ ~detail_log[1].ok
    /\ Len(results_info) = 2
    /\ results_info[1][3] = <<>>
    /\ results_info[2][3] # <<>>

C8_DelayBeforeEveryRequest ==
    pc \in {"collect", "get_procedura_links", "doc"}
      => (idle_time = -1 \/ idle_time >= DELAY_BETWEEN_REQUESTS)

\* whitespace only, or empty
IsBlank(kw) == \A i \in 1..Len(kw) : kw[i] = " "

\* C9: a Search with an empty or whitespace-only keyword starts no crawl
\* (no request is made) and leaves detail_urls, results_info and
\* base_save_dir as they were.
C9_BlankKeywordRejected ==
    [][(pc = "idle" /\ IsBlank(keyword))
         => /\ pc' = "idle"
            /\ UNCHANGED <<detail_urls, results_info, base_save_dir>>
            /\ UNCHANGED <<walk_log, detail_log, idle_time>>]_vars

\* C9 witness: a whitespace-only keyword was rejected after an earlier
\* Search had stored results
C9_Witness ==
    /\ pc = "idle"
    /\ keyword = <<" ", " ">>
    /\ msg = "Please provide a keyword before searching."
    /\ results_info # <<>>
    /\ base_save_dir # NoDir

\* 10^n
RECURSIVE Pow10(_)
Pow10(n) == IF n = 0 THEN 1 ELSE 10 * Pow10(n - 1)

\* n written with len decimal digits, zero-padded
Decimal(n, len) == [i \in 1..len |-> DigitOf((n \div Pow10(len - i)) % 10)]

\* the number a digit string writes
NumberWritten(ds) == CHOOSE n \in 0..(Pow10(Len(ds)) - 1) : Decimal(n, Len(ds)) = ds

AllSpaces(t, i, j) == \A k \in i..j : t[k] = " "

AllDigits(t, i, j) == \A k \in i..j : t[k] \in Digits

\* t is "Pagina", whitespace, digits, whitespace, "di", whitespace and the
\* digits t[b..Len(t)]
IsLabelWithTotalAt(t, b) ==
    /\ Len(t) >= 7
    /\ t[1] = "Pagina"
    /\ b \in 7..Len(t)
    /\ AllDigits(t, b, Len(t))
    /\ \E s3 \in 6..(b - 1) :
         /\ AllSpaces(t, s3, b - 1)
         /\ t[s3 - 1] = "di"
         /\ \E s2 \in 4..(s3 - 2) :
              /\ AllSpaces(t, s2, s3 - 2)
              /\ \E d1 \in 3..(s2 - 1) :
                   /\ AllDigits(t, d1, s2 - 1)
                   /\ AllSpaces(t, 2, d1 - 1)

\* t is a well-formed label "Pagina a di b"
IsLabel(t) == \E b \in 1..Len(t) : IsLabelWithTotalAt(t, b)

\* the b of a well-formed label
LabelTotal(t) ==
    LET b == CHOOSE b \in 1..Len(t) : IsLabelWithTotalAt(t, b)
    IN  NumberWritten(SubSeq(t, b, Len(t)))

\* some stretch of t matches the pattern of a label
ContainsLabel(t) == \E i \in 1..Len(t) : \E j \in i..Len(t) : IsLabel(SubSeq(t, i, j))

\* find_total_pages was called on its own and has returned
FtpReturned == fn = "find_total_pages" /\ returned

\* C5 as stated: find_total_pages returns an integer >= 1 for every markup.
C5_TotalAtLeastOne == FtpReturned => ret[1] >= 1

\* C6: find_total_pages returns b for a well-formed label "Pagina a di b"
\* under the pagination container, whatever a is, and 1 when the container,
\* the label element or the pattern match is absent.
C6_TotalOfLabel ==
    FtpReturned =>
      /\ (arg.hasUl /\ arg.hasLi /\ IsLabel(arg.text)) => ret[1] = LabelTotal(arg.text)
      /\ (~arg.hasUl \/ ~arg.hasLi \/ ~ContainsLabel(arg.text)) => ret[1] = 1

\* C6 witness: the label "Pagina 0 di 2" gave 2
C6_Witness ==
    /\ FtpReturned
    /\ arg = MkPag(TRUE, TRUE, <<"Pagina", " ", "0", " ", "di", " ", "2">>)
    /\ ret = <<2>>

\* the first anchor of a cell that has an href and the download title
HasDownloadAnchor(cell) ==
    \E k \in 1..Len(cell.links) :
      cell.links[k].hasHref /\ cell.links[k].title = "Scarica il documento"

DownloadAnchor(cell) ==
    LET ks == {k \in 1..Len(cell.links) :
                 cell.links[k].hasHref /\ cell.links[k].title = "Scarica il documento"}
    IN  cell.links[CHOOSE k \in ks : \A m \in ks : k <= m]

\* a row that yields an entry: at least 9 columns, a download anchor in
\* column index 8
IsDocumentRow(row) == Len(row) >= 9 /\ HasDownloadAnchor(row[9])

\* the entries of a table: of the rows after the first, those that yield an
\* entry, in row order, as (download URL, name of column index 1)
EntriesOfTable(table) ==
    LET data == SubSeq(table.rows, 2, Len(table.rows))
        kept == SelectSeq(data, IsDocumentRow)
    IN  [k \in 1..Len(kept) |->
           <<urljoin(BASE_URL, DownloadAnchor(kept[k][9]).href), kept[k][2].text>>]

\* the table parse was called on its own and has returned
TableReturned == fn = "table_documents" /\ returned

\* C10: the entries a page adds to doc_links are exactly, in row order, the
\* (download URL, name) pairs of the rows after the first that have at least
\* 9 columns and a download anchor in column index 8; other rows are skipped
\* and a table with only a header row adds nothing.
C10_TableEntries ==
    TableReturned =>
      /\ ret = arg.doc_links \o EntriesOfTable(arg.table)
      /\ Len(arg.table.rows) <= 1 => ret = arg.doc_links

\* C10 witness: after the header, a row of 8 columns was skipped and the row
\* after it gave its entry
C10_Witness ==
    /\ TableReturned
    /\ arg.doc_links = <<>>
    /\ Len(arg.table.rows) = 3
    /\ Len(arg.table.rows[1]) = 9
    /\ Len(arg.table.rows[2]) = 8
    /\ Len(ret) = 1
    /\ ret[1][2] = <<"b", ".pdf">>

\* collect_search_results was called on its own and has returned
CollectReturned == fn = "collect_search_results" /\ returned

\* no request of the walk failed
NoFetchFailed == \A n \in 1..Len(walk_log) : walk_log[n].ok

\* a 2-page walk whose pages gave 3 and 2 distinct record links, 5 in all
ThreeAndTwoLinks ==
    /\ Len(walk_log) = 2
    /\ NoFetchFailed
    /\ Len(walk_log[1].items) = 3
    /\ Len(walk_log[2].items) = 2
    /\ NoDuplicates(walk_log[1].items \o walk_log[2].items)

\* C11: when no fetch failed, collect_search_results returns the matching
\* links of pages 1..T joined in page order, each URL kept only at its first
\* occurrence; pages of 3 and 2 distinct links give exactly those 5 URLs.
C11_ConcatenationOfPages ==
    (CollectReturned /\ NoFetchFailed) =>
      /\ \A k \in 1..Len(walk_log) : walk_log[k].page = k
      /\ ret = FirstOccurrences(ItemsOfPages(walk_log, Len(walk_log)))
      /\ ThreeAndTwoLinks => ret = walk_log[1].items \o walk_log[2].items

\* C11 witness: pages of 3 and 2 distinct links gave a list of 5 URLs
C11_Witness ==
    /\ CollectReturned
    /\ ThreeAndTwoLinks
    /\ Len(ret) = 5

\* C12: on a fixed site a Search run that ends leaves the record list and
\* the results_info tuples, order included, that the run before it of the
\* same search left.
C12_SameResultTwice ==
    [][(/\ site.fixed
        /\ pc = "for_detail"
        /\ pc' = "idle"
        /\ seen[<<keyword, search_type>>].runs > 0)
         => <<detail_urls', results_info'>> = seen[<<keyword, search_type>>].value]_vars

\* C12 witness: the same search has run twice on a site whose second page of
\* a document table fails, and left two tuples, the first with documents
C12_Witness ==
    /\ site.fixed
    /\ site.bad = {<<"Documentazione", Id1, 2>>}
    /\ pc = "idle"
    /\ seen[<<keyword, search_type>>].runs = 2
    /\ Len(results_info) = 2
    /\ results_info[1][3] # <<>>

\* the download URLs of a document list, in order
UrlsOf(docs) == [i \in 1..Len(docs) |-> docs[i][1]]

\* C13 as stated: the document list get_document_links builds and returns
\* for a procedure never holds the same download URL twice.
C13_NoDuplicateDocuments ==
    /\ NoDuplicates(UrlsOf(doc_links))
    /\ \A k \in 1..Len(results_info) : NoDuplicates(UrlsOf(results_info[k][3]))

\* the last segment of a path: what follows its last "/"
LastSegment(path) ==
    LET slashes == {i \in 1..Len(path) : path[i] = "/"}
        from == IF slashes = {} THEN 1
                ELSE (CHOOSE i \in slashes : \A j \in slashes : j <= i) + 1
    IN  SubSeq(path, from, Len(path))

\* the URL ends in a numeric path segment
EndsInNumber(url) ==
    /\ LastSegment(url.id) # <<>>
    /\ \A i \in 1..Len(LastSegment(url.id)) : LastSegment(url.id)[i] \in Digits

\* get_project_id was called on its own and has returned
ProjectIdReturned == fn = "get_project_id" /\ returned

\* C14 as stated: get_project_id returns the trailing numeric path segment of
\* a URL that ends in one and "UnknownProject" for every other URL.
C14_TrailingNumericSegment ==
    ProjectIdReturned =>
      ret = IF EndsInNumber(arg) THEN LastSegment(arg.id) ELSE <<"UnknownProject">>

\* the largest total the fetched pages of a walk reported, 0 if none did
MaxReported(log) ==
    LET totals == {log[n].total : n \in {m \in 1..Len(log) : log[m].ok}}
    IN  IF totals = {} THEN 0 ELSE CHOOSE t \in totals : \A u \in totals : u <= t

\* the larger of two numbers
Max(a, b) == IF a >= b THEN a ELSE b

\* what C15 says of the requests of a walk: at most max(T, 1) of them when
\* the fetched pages report at most T, and fewer while the walk is running
C15_RequestBound ==
    /\ (InSearchWalk \/ InDocWalk) => Len(walk_log) <= Max(MaxReported(walk_log), 1)
    /\ pc \in {"collect", "doc"} => Len(walk_log) < Max(MaxReported(walk_log), 1)

\* C15: a walk whose fetched pages all report a total of at most T issues at
\* most max(T, 1) requests and then returns.
C15_RequestsBoundedByTotal ==
    /\ []C15_RequestBound
    /\ (pc = "collect") ~> (pc = "collected")
    /\ (pc = "doc") ~> (pc = "doc_done")

\* C15 witness: a document walk over pages that report 2 pages returned after
\* 2 requests
C15_Witness ==
    /\ pc = "doc_done"
    /\ Len(walk_log) = 2
    /\ NoFetchFailed
    /\ MaxReported(walk_log) = 2

\* C16: in a walk the k-th request is for page k: the requests made so far
\* were for pages 1, 2, ... in order, each once, and the request the walk
\* makes next is for the page after them.
C16_RequestsInPageOrder ==
    /\ (InSearchWalk \/ InDocWalk) => \A k \in 1..Len(walk_log) : walk_log[k].page = k
    /\ pc = "collect"
         => PageOf(build_search_url(keyword, search_type, page)) = Len(walk_log) + 1
    /\ pc = "doc"
         => PageOf(document_page_url(procedure_urls[proc_i], page)) = Len(walk_log) + 1

\* C16 witness: a document walk has fetched page 1 and is about to request
\* page 2
C16_Witness ==
    /\ pc = "doc"
    /\ Len(walk_log) = 1
    /\ page = 2

\* the list a is the beginning of the list b
IsPrefix(a, b) == Len(a) <= Len(b) /\ SubSeq(b, 1, Len(a)) = a

\* C17: every step of a search walk leaves all_links, and every step of a
\* document walk leaves doc_links, as a list that begins with the list as
\* it was before the step.
C17_AppendOnly ==
    [][/\ pc = "collect" => IsPrefix(all_links, all_links')
       /\ pc = "doc" => IsPrefix(doc_links, doc_links')]_vars

\* C17 witness: the second page of a document walk added its two entries
\* after the two of the first page
C17_Witness ==
    /\ pc = "doc_done"
    /\ Len(walk_log) = 2
    /\ Len(walk_log[1].items) = 2
    /\ Len(walk_log[2].items) = 2
    /\ Len(doc_links) = 4

\* C18 as stated: whenever download_file skips a document, the file at its
\* target path holds the complete content of an earlier download of that
\* same document.
C18_SkipOnlyCompleteSameDocument ==
    dl_event.kind = "skipped" =>
      \E f \in files : /\ f.path = dl_event.path
                       /\ f.url = dl_event.url
                       /\ f.complete

\* every tuple of results_info names a record of detail_urls and a folder
\* under base_save_dir
TuplesOfCurrentSearch ==
    \A k \in 1..Len(results_info) :
      /\ InList(results_info[k][1], detail_urls)
      /\ IsPrefix(base_save_dir, results_info[k][4])

\* C19: every tuple of results_info belongs to the most recent accepted
\* Search: its record is in the current detail_urls, its folder under the
\* current base_save_dir, and a Search that is accepted starts from an empty
\* results_info and an empty detail_urls.
C19_ResultsOfLatestSearch ==
    /\ []TuplesOfCurrentSearch
    /\ [][(pc = "idle" /\ pc' \in {"collect", "collected"})
            => (results_info' = <<>> /\ detail_urls' = <<>>)]_vars

\* C19 witness: a Search of type "d" has ended with results after a Search
\* of type "o" had been made for the same keyword
C19_Witness ==
    /\ RunEnded
    /\ msg = "All procedures parsed."
    /\ search_type = "d"
    /\ cache[<<keyword, "o">>].hit
    /\ cache[<<keyword, "o">>].value # <<>>
    /\ results_info # <<>>
    /\ base_save_dir[3] = <<"Documenti">>

====
